---- MODULE Spec2Model ----
(***************************************************************************)
(* ccsat: the DPLL solver of src/SAT.cc and src/SAT.h (class DPLLSolver),  *)
(* as a state machine.  One solver object; the caller hands it a CNF with  *)
(* solve(), the search runs step by step (one _assign phase, one forced    *)
(* literal, one _undo per step), and the verdict is returned.              *)
(*                                                                         *)
(* Clause indices and literal positions are 1-based here (0-based in the   *)
(* C++).  A Lit* is a pair (clause index, literal position); nullptr is    *)
(* NULL.  A std::stack is a sequence whose top is its last element.        *)
(***************************************************************************)
EXTENDS Naturals, Sequences, FiniteSets

\* ------------------------------------------------------------------ bounds
\* variables of the input are 1..NumVars
NumVars == 3
\* SmallCNFs: literals per clause 0..MaxLen, clauses per CNF 0..MaxClauses
MaxLen == 2
MaxClauses == 2
\* DeepCNFs: 0..MaxDeep distinct clauses of two variables
MaxDeep == 5
\* WideCNFs: 0..MaxWide distinct clauses of 1..WideLen variables
MaxWide == 3
WideLen == 3

\* ------------------------------------------------------------ formula model
VarIds == 1 .. NumVars
\* var_t values a read of the uninitialized initial_var can yield: a variable
\* of the input or a value that is none (0 stands for every such value)
VarUniverse == 0 .. NumVars + 1

Lit == [var : VarIds, sign : BOOLEAN]

\* a plausible slip where a decision is built: the sign is inverted
mkLitFlipped(v, s) == [var |-> v, sign |-> ~s]

mkLit(v, s) == [var |-> v, sign |-> s]

\* a plausible slip in Lit::negate: the sign is kept
keepSign(l) == l

negate(l) == [var |-> l.var, sign |-> ~l.sign]

SeqsUpTo(S, n) == UNION {[1 .. k -> S] : k \in 0 .. n}

RECURSIVE SubsetsUpTo(_, _)
SubsetsUpTo(S, n) ==
    IF n = 0 THEN {{}}
    ELSE LET R == SubsetsUpTo(S, n - 1)
         IN  R \cup {T \cup {x} : T \in R, x \in S}

\* every CNF of up to MaxClauses clauses of up to MaxLen literals: a clause
\* may be empty, repeat a literal, hold both polarities of a variable
SmallCNFs == SeqsUpTo(SeqsUpTo(Lit, MaxLen), MaxClauses)

\* the clauses of n literals over n variables, in the order of the variables
SortedClauses(n) ==
    {c \in [1 .. n -> Lit] : \A j \in 1 .. n - 1 : c[j].var < c[j + 1].var}

litCode(l) == 2 * l.var + (IF l.sign THEN 1 ELSE 0)

RECURSIVE clauseCode(_, _)
clauseCode(c, j) ==
    IF j > Len(c) THEN 0
    ELSE litCode(c[j]) + 2 * (NumVars + 1) * clauseCode(c, j + 1)

\* a set of clauses as a CNF, the clauses in a fixed order
RECURSIVE SortedSeq(_)
SortedSeq(S) ==
    IF S = {} THEN <<>>
    ELSE LET x == CHOOSE x \in S :
                    \A y \in S : clauseCode(x, 1) <= clauseCode(y, 1)
         IN  <<x>> \o SortedSeq(S \ {x})

\* the CNFs of up to MaxDeep distinct two-variable clauses: enough clauses
\* for conflicts below a first decision
DeepCNFs == {SortedSeq(S) : S \in SubsetsUpTo(SortedClauses(2), MaxDeep)}

\* the CNFs of up to MaxWide distinct clauses of up to WideLen variables:
\* clauses long enough for a watcher to move to another literal
WideCNFs ==
    {SortedSeq(S) :
        S \in SubsetsUpTo(UNION {SortedClauses(n) : n \in 1 .. WideLen}, MaxWide)}

\* the variables of f are numbered in the order of their first occurrence
\* (every other CNF is one of these with its variables renamed)
Canonical(f) ==
    \A i \in 1 .. Len(f) : \A j \in 1 .. Len(f[i]) :
        \/ f[i][j].var = 1
        \/ \E i2 \in 1 .. i : \E j2 \in 1 .. Len(f[i2]) :
              /\ i2 < i \/ j2 < j
              /\ f[i2][j2].var + 1 = f[i][j].var

\* the positive and the negative literal of variable v
P(v) == mkLit(v, FALSE)

N(v) == mkLit(v, TRUE)

\* the two-variable clauses that leave no assignment of a and b
Square(a, b) == << <<P(a), P(b)>>, <<P(a), N(b)>>, <<N(a), P(b)>>, <<N(a), N(b)>> >>

\* CNFs over one variable more, whose search undoes several frames in one
\* backtrack: below a first frame that forced a pure literal, that forced a
\* unit literal, that stored the state of a long clause
NestedCNFs ==
    LET a == NumVars - 1
        b == NumVars
        c == NumVars + 1
    IN  { << <<P(1)>>, <<P(a), P(b), P(c)>> >> \o Square(b, c),
          << <<N(1), P(a)>> >> \o Square(b, c),
          << <<N(1), P(b), P(c)>>, <<P(1), N(a)>>, <<N(a), P(b)>> >> \o Square(b, c) }

\* the inputs of solve()
CNFs == {f \in SmallCNFs \cup DeepCNFs \cup WideCNFs : Canonical(f)}
          \cup NestedCNFs

\* Model: std::unordered_map<var_t, bool>, a function on the assigned variables
EmptyModel == [v \in {} |-> TRUE]

isAssigned(m, v) == v \in DOMAIN m

setModel(m, v, b) == [x \in (DOMAIN m) \cup {v} |-> IF x = v THEN b ELSE m[x]]

eraseModel(m, v) == [x \in (DOMAIN m) \ {v} |-> m[x]]

\* Lit::eval: sign ^ m.at(var)
LitEval(l, m) == l.sign # m[l.var]

ClauseEval(c, m) == \E j \in 1 .. Len(c) : LitEval(c[j], m)

CNFEval(f, m) == \A i \in 1 .. Len(f) : ClauseEval(f[i], m)

VarsOf(f) == UNION {{f[i][j].var : j \in 1 .. Len(f[i])} : i \in 1 .. Len(f)}

\* ------------------------------------------------------------ solver state
\* _instance, _model, _vars (in the iteration order of the unordered_set),
\* _clause_states, _deltas, _assn_stack, _pos_map, _neg_map: the members of
\* DPLLSolver.  arg: the CNF the caller passes to solve().  pc: where the
\* call stands.  verdict: what solve() returned.  pre: for every frame of
\* deltas, the model and clause states at the entry of the _assign that
\* pushed it (history).  prev: the result of the previous solve() (history).
\* steps: the steps the current solve() has taken (history).
VARIABLES instance, model, vars, clause_states, deltas, assn_stack,
          pos_map, neg_map, arg, pc, verdict, pre, prev, steps

allvars == <<instance, model, vars, clause_states, deltas, assn_stack,
             pos_map, neg_map, arg, pc, verdict, pre, prev, steps>>

solver == <<instance, model, vars, clause_states, deltas, assn_stack,
            pos_map, neg_map>>

\* nullptr
NULL == [c |-> 0, p |-> 0]

\* *ptr, for a Lit* into _instance
deref(ptr) == instance[ptr.c][ptr.p]

Top(s) == s[Len(s)]

Pop(s) == SubSeq(s, 1, Len(s) - 1)

Contains(s, x) == \E k \in 1 .. Len(s) : s[k] = x

\* _ClauseState::empty and the test of _hasEmpty
csEmpty(st) == st.first = NULL /\ st.second = NULL

\* _ClauseState::unital and the tests of _findUnit
csUnital(st) == (st.first # NULL) # (st.second # NULL)

\* a plausible slip in _findUnassigned: the model is not consulted
RECURSIVE findFromAssignedToo(_, _, _, _, _)
findFromAssignedToo(f, m, ci, banned, j) ==
    IF j > Len(f[ci]) THEN NULL
    ELSE IF banned = NULL \/ f[ci][j] # f[banned.c][banned.p]
         THEN [c |-> ci, p |-> j]
         ELSE findFromAssignedToo(f, m, ci, banned, j + 1)

\* a plausible slip in _findUnassigned: banned is not consulted
RECURSIVE findFromUnbanned(_, _, _, _, _)
findFromUnbanned(f, m, ci, banned, j) ==
    IF j > Len(f[ci]) THEN NULL
    ELSE IF ~isAssigned(m, f[ci][j].var)
         THEN [c |-> ci, p |-> j]
         ELSE findFromUnbanned(f, m, ci, banned, j + 1)

\* the first literal of clause ci (of CNF f) that is unassigned under m and
\* differs from *banned
RECURSIVE findFrom(_, _, _, _, _)
findFrom(f, m, ci, banned, j) ==
    IF j > Len(f[ci]) THEN NULL
    ELSE IF /\ ~isAssigned(m, f[ci][j].var)
            /\ (banned = NULL \/ f[ci][j] # f[banned.c][banned.p])
         THEN [c |-> ci, p |-> j]
         ELSE findFrom(f, m, ci, banned, j + 1)

findUnassigned(f, m, ci, banned) == findFrom(f, m, ci, banned, 1)

\* a plausible slip in store: every state is recorded, the newest last
storeAlways(priors, cspair) == Append(priors, cspair)

\* _SolverDelta::store: keeps the oldest state of a clause
store(priors, cspair) ==
    IF \E k \in 1 .. Len(priors) : priors[k][1] = cspair[1]
    THEN priors
    ELSE Append(priors, cspair)

\* a plausible slip in _unitPropagate: the clauses listed for lit stay active
satisfyNone(idx, k, r) == r

\* first loop of _unitPropagate: the clauses listed for lit become inactive
RECURSIVE satisfyFrom(_, _, _)
satisfyFrom(idx, k, r) ==
    IF k > Len(idx) THEN r
    ELSE LET i == idx[k] IN
         IF r.cs[i].active
         THEN satisfyFrom(idx, k + 1,
                  [cs |-> [r.cs EXCEPT ![i].active = FALSE],
                   priors |-> store(r.priors, <<i, r.cs[i]>>)])
         ELSE satisfyFrom(idx, k + 1, r)

\* a plausible slip in _unitPropagate: the watcher on ~lit is not replaced
refreshNone(m, i, st, negated) == st

\* the watcher update of one clause listed for ~lit
refresh(m, i, st, negated) ==
    IF st.first # NULL /\ deref(st.first) = negated
    THEN [st EXCEPT !.first = findUnassigned(instance, m, i, st.second)]
    ELSE IF st.second # NULL /\ deref(st.second) = negated
         THEN [st EXCEPT !.second = findUnassigned(instance, m, i, st.first)]
         ELSE st

\* second loop of _unitPropagate: every clause listed for ~lit is stored and
\* has the watcher on ~lit replaced
RECURSIVE falsifyFrom(_, _, _, _, _)
falsifyFrom(idx, k, m, negated, r) ==
    IF k > Len(idx) THEN r
    ELSE LET i == idx[k] IN
         falsifyFrom(idx, k + 1, m, negated,
             [cs |-> [r.cs EXCEPT ![i] = refresh(m, i, r.cs[i], negated)],
              priors |-> store(r.priors, <<i, r.cs[i]>>)])

\* _unitPropagate(lit, delta) under model m: the new clause states and priors
unitPropagate(lit, m, cs, priors) ==
    LET pos_indices == IF lit.sign THEN neg_map[lit.var] ELSE pos_map[lit.var]
        neg_indices == IF lit.sign THEN pos_map[lit.var] ELSE neg_map[lit.var]
    IN  falsifyFrom(neg_indices, 1, m, negate(lit),
            satisfyFrom(pos_indices, 1, [cs |-> cs, priors |-> priors]))

\* _pureAssign(pure, delta)
RECURSIVE pureFrom(_, _, _)
pureFrom(idx, k, r) ==
    IF k > Len(idx) THEN r
    ELSE LET i == idx[k] IN
         IF r.cs[i].active
         THEN pureFrom(idx, k + 1,
                  [cs |-> [r.cs EXCEPT ![i].active = FALSE],
                   priors |-> store(r.priors, <<i, r.cs[i]>>)])
         ELSE pureFrom(idx, k + 1, r)

pureAssign(pure, cs, priors) ==
    pureFrom(IF pure.sign THEN neg_map[pure.var] ELSE pos_map[pure.var], 1,
             [cs |-> cs, priors |-> priors])

\* a plausible slip in _findUnit: the active flag is not tested
RECURSIVE findUnitInactiveToo(_, _)
findUnitInactiveToo(cs, k) ==
    IF k > Len(cs) THEN <<>>
    ELSE IF cs[k].first = NULL /\ cs[k].second # NULL
         THEN <<deref(cs[k].second)>>
         ELSE IF cs[k].first # NULL /\ cs[k].second = NULL
              THEN <<deref(cs[k].first)>>
              ELSE findUnitInactiveToo(cs, k + 1)

\* _findUnit: <<the unit literal>> of the first active clause state with one
\* watcher, or <<>>
RECURSIVE findUnitFrom(_, _)
findUnitFrom(cs, k) ==
    IF k > Len(cs) THEN <<>>
    ELSE IF cs[k].active /\ cs[k].first = NULL /\ cs[k].second # NULL
         THEN <<deref(cs[k].second)>>
         ELSE IF cs[k].active /\ cs[k].first # NULL /\ cs[k].second = NULL
              THEN <<deref(cs[k].first)>>
              ELSE findUnitFrom(cs, k + 1)

findUnit(cs) == findUnitFrom(cs, 1)

\* the test _findPure makes of one variable: <<the pure literal>> or <<>>
pureOf(v, cs) ==
    LET posActive == \E k \in 1 .. Len(pos_map[v]) : cs[pos_map[v][k]].active
        negActive == \E k \in 1 .. Len(neg_map[v]) : cs[neg_map[v][k]].active
    IN  IF posActive /\ ~negActive THEN <<mkLit(v, FALSE)>>
        ELSE IF negActive /\ ~posActive THEN <<mkLit(v, TRUE)>>
             ELSE <<>>

\* _findPure: the first unassigned variable of _vars that is pure
RECURSIVE findPureFrom(_, _, _, _)
findPureFrom(vs, m, cs, k) ==
    IF k > Len(vs) THEN <<>>
    ELSE IF ~isAssigned(m, vs[k]) /\ pureOf(vs[k], cs) # <<>>
         THEN pureOf(vs[k], cs)
         ELSE findPureFrom(vs, m, cs, k + 1)

findPure(vs, m, cs) == findPureFrom(vs, m, cs, 1)

hasEmpty(cs) == \E k \in 1 .. Len(cs) : cs[k].active /\ csEmpty(cs[k])

allInactive(cs) == \A k \in 1 .. Len(cs) : ~cs[k].active

complete(vs, m) == \A k \in 1 .. Len(vs) : isAssigned(m, vs[k])

\* _completeModel
completeModel(vs, m) ==
    [x \in (DOMAIN m) \cup {vs[k] : k \in 1 .. Len(vs)} |->
        IF x \in DOMAIN m THEN m[x] ELSE FALSE]

\* _chooseVar: <<the first unassigned variable of _vars>> or <<>>
RECURSIVE chooseFrom(_, _, _)
chooseFrom(vs, m, k) ==
    IF k > Len(vs) THEN <<>>
    ELSE IF ~isAssigned(m, vs[k]) THEN <<vs[k]>>
         ELSE chooseFrom(vs, m, k + 1)

chooseVar(vs, m) == chooseFrom(vs, m, 1)

\* ------------------------------------------------------------------ _init
\* the clause states _init appends for CNF f: both watchers by _findUnassigned
initStates(f, m) ==
    [i \in 1 .. Len(f) |->
        LET w1 == findUnassigned(f, m, i, NULL)
        IN  [first |-> w1, second |-> findUnassigned(f, m, i, w1), active |-> TRUE]]

\* what _init does with one literal l of clause i while it builds the lists
\* of variable var
occLit(pn, var, l, i) ==
    IF l.var # var THEN pn
    ELSE IF l.sign /\ ~Contains(pn.neg, i)
         THEN [pn EXCEPT !.neg = Append(@, i)]
         ELSE IF ~Contains(pn.pos, i)
              THEN [pn EXCEPT !.pos = Append(@, i)]
              ELSE pn

RECURSIVE occFrom(_, _, _, _, _)
occFrom(pn, var, f, i, j) ==
    IF i > Len(f) THEN pn
    ELSE IF j > Len(f[i]) THEN occFrom(pn, var, f, i + 1, 1)
         ELSE occFrom(occLit(pn, var, f[i][j], i), var, f, i, j + 1)

\* the lists of var after _init on f; insert() keeps the lists var has
occOf(var, f, pos, neg) == occFrom([pos |-> pos, neg |-> neg], var, f, 1, 1)

Range(s) == {s[k] : k \in 1 .. Len(s)}

\* the iteration orders _vars can have after the variables S are inserted:
\* the same order when nothing is new, any order otherwise
Orders(old, S) ==
    IF S \subseteq Range(old) THEN {old}
    ELSE LET T == Range(old) \cup S
         IN  {o \in [1 .. Cardinality(T) -> T] : Range(o) = T}

\* ---------------------------------------------------------------- actions
NoPrev == [called |-> FALSE, arg |-> <<>>, verdict |-> "none", model |-> EmptyModel]

Init ==
    /\ instance = <<>>
    /\ model = EmptyModel
    /\ vars = <<>>
    /\ clause_states = <<>>
    /\ deltas = <<>>
    /\ assn_stack = <<>>
    /\ pos_map = [v \in VarUniverse |-> <<>>]
    /\ neg_map = [v \in VarUniverse |-> <<>>]
    /\ arg \in CNFs
    /\ pc = "idle"
    /\ verdict = "none"
    /\ pre = <<>>
    /\ prev = NoPrev
    /\ steps = 0

\* a plausible slip in solve: only the first clause is tested for emptiness
earlyReturnFirstOnly(cnf) ==
    IF Len(cnf) = 0 THEN "sat"
    ELSE IF Len(cnf[1]) = 0 THEN "unsat"
         ELSE "none"

\* the early returns of solve: the empty CNF, then a CNF with an empty clause
earlyReturn(cnf) ==
    IF Len(cnf) = 0 THEN "sat"
    ELSE IF \E i \in 1 .. Len(cnf) : Len(cnf[i]) = 0 THEN "unsat"
         ELSE "none"

\* solve(cnf) up to the call of _DPLL: the two early returns, else _init
Solve ==
    /\ pc = "idle"
    /\ steps' = steps + 1
    /\ UNCHANGED <<arg, pre, prev>>
    /\ IF earlyReturn(arg) # "none"
       THEN pc' = "done" /\ verdict' = earlyReturn(arg) /\ UNCHANGED solver
       ELSE \E order \in Orders(vars, VarsOf(arg)), initial_var \in VarUniverse :
                   LET ch == chooseVar(order, model)
                   IN  \* initial_var stays uninitialized when _chooseVar fails
                       /\ ch # <<>> => initial_var = ch[1]
                       /\ instance' = arg
                       /\ vars' = order
                       /\ clause_states' = clause_states \o initStates(arg, model)
                       /\ pos_map' = [v \in VarUniverse |->
                              IF v \in Range(order)
                              THEN occOf(v, arg, pos_map[v], neg_map[v]).pos
                              ELSE pos_map[v]]
                       /\ neg_map' = [v \in VarUniverse |->
                              IF v \in Range(order)
                              THEN occOf(v, arg, pos_map[v], neg_map[v]).neg
                              ELSE neg_map[v]]
                       /\ assn_stack' = assn_stack \o
                              <<mkLit(initial_var, TRUE), mkLit(initial_var, FALSE)>>
                       /\ UNCHANGED <<model, deltas>>
                       /\ pc' = "loop"
                       /\ verdict' = "none"

\* _DPLL's loop test, and _assign(_assn_stack.top()) up to the return of its
\* first _unitPropagate.  A failing assert ends the program (pc = "abort").
Assign ==
    /\ pc = "loop"
    /\ steps' = steps + 1
    /\ UNCHANGED <<instance, vars, pos_map, neg_map, arg, prev, assn_stack>>
    /\ IF assn_stack = <<>>
       THEN /\ pc' = "done"
            /\ verdict' = "unsat"
            /\ UNCHANGED <<model, clause_states, deltas, pre>>
       ELSE LET lit == Top(assn_stack)
                delta == [principal |-> lit, forced |-> <<>>, priors |-> <<>>]
                m1 == setModel(model, lit.var, ~lit.sign)
                r == unitPropagate(lit, m1, clause_states, <<>>)
            IN  /\ pre' = Append(pre, [model |-> model, cs |-> clause_states])
                /\ verdict' = verdict
                /\ IF isAssigned(model, lit.var)
                   THEN /\ pc' = "abort"
                        /\ deltas' = Append(deltas, delta)
                        /\ UNCHANGED <<model, clause_states>>
                   ELSE /\ model' = m1
                        /\ clause_states' = r.cs
                        /\ deltas' = Append(deltas, [delta EXCEPT !.priors = r.priors])
                        /\ pc' = IF hasEmpty(r.cs) THEN "check" ELSE "unit"

\* one turn of the unit loop of _assign
ForceUnit ==
    /\ pc = "unit"
    /\ findUnit(clause_states) # <<>>
    /\ steps' = steps + 1
    /\ UNCHANGED <<instance, vars, pos_map, neg_map, arg, prev, assn_stack,
                   pre, verdict>>
    /\ LET unit == findUnit(clause_states)[1]
           delta == [Top(deltas) EXCEPT !.forced = Append(@, unit)]
           m1 == setModel(model, unit.var, ~unit.sign)
           r == unitPropagate(unit, m1, clause_states, delta.priors)
       IN  IF isAssigned(model, unit.var)
           THEN /\ pc' = "abort"
                /\ deltas' = [deltas EXCEPT ![Len(deltas)] = delta]
                /\ UNCHANGED <<model, clause_states>>
           ELSE /\ model' = m1
                /\ clause_states' = r.cs
                /\ deltas' = [deltas EXCEPT ![Len(deltas)] =
                                 [delta EXCEPT !.priors = r.priors]]
                /\ pc' = IF hasEmpty(r.cs) THEN "check" ELSE "unit"

\* one turn of the pure loop of _assign (entered when _findUnit finds nothing;
\* _findPure yields unassigned variables only, so its assert holds)
ForcePure ==
    /\ pc \in {"unit", "pure"}
    /\ pc = "unit" => findUnit(clause_states) = <<>>
    /\ findPure(vars, model, clause_states) # <<>>
    /\ steps' = steps + 1
    /\ UNCHANGED <<instance, vars, pos_map, neg_map, arg, prev, assn_stack,
                   pre, verdict>>
    /\ LET pure == findPure(vars, model, clause_states)[1]
           delta == [Top(deltas) EXCEPT !.forced = Append(@, pure)]
           r == pureAssign(pure, clause_states, delta.priors)
       IN  /\ model' = setModel(model, pure.var, ~pure.sign)
           /\ clause_states' = r.cs
           /\ deltas' = [deltas EXCEPT ![Len(deltas)] =
                            [delta EXCEPT !.priors = r.priors]]
           /\ pc' = "pure"

\* _assign has returned to _DPLL
AssignReturned ==
    \/ pc = "check"
    \/ pc = "unit" /\ findUnit(clause_states) = <<>>
                   /\ findPure(vars, model, clause_states) = <<>>
    \/ pc = "pure" /\ findPure(vars, model, clause_states) = <<>>

\* the body of _DPLL's loop after _assign: pop, then SAT, conflict, complete
\* model or a new branching variable; with the entry test of _backtrack
Check ==
    /\ AssignReturned
    /\ steps' = steps + 1
    /\ UNCHANGED <<instance, vars, pos_map, neg_map, arg, prev, pre,
                   clause_states, deltas>>
    /\ LET stack == Pop(assn_stack)
           ch == chooseVar(vars, model)
           backtrack == IF deltas = <<>> \/ stack = <<>>
                        THEN [pc |-> "done", verdict |-> "unsat"]
                        ELSE [pc |-> "backtrack", verdict |-> verdict]
           out == IF allInactive(clause_states)
                  THEN [pc |-> "done", verdict |-> "sat",
                        model |-> completeModel(vars, model), stack |-> stack]
                  ELSE IF hasEmpty(clause_states)
                  THEN [pc |-> backtrack.pc, verdict |-> backtrack.verdict,
                        model |-> model, stack |-> stack]
                  ELSE IF complete(vars, model)
                  THEN IF CNFEval(instance, model)
                       THEN [pc |-> "done", verdict |-> "sat",
                             model |-> model, stack |-> stack]
                       ELSE [pc |-> backtrack.pc, verdict |-> backtrack.verdict,
                             model |-> model, stack |-> stack]
                  ELSE IF ch = <<>>
                  THEN [pc |-> "done", verdict |-> "unsat",
                        model |-> model, stack |-> stack]
                  ELSE [pc |-> "loop", verdict |-> verdict, model |-> model,
                        stack |-> stack \o <<mkLit(ch[1], TRUE), mkLit(ch[1], FALSE)>>]
       IN  /\ pc' = out.pc
           /\ verdict' = out.verdict
           /\ model' = out.model
           /\ assn_stack' = out.stack

\* a plausible slip in _undo: the forced literals stay in the model
eraseNone(m, lits, k) == m

\* _undo's erasures
RECURSIVE eraseAll(_, _, _)
eraseAll(m, lits, k) ==
    IF k > Len(lits) THEN m
    ELSE eraseAll(eraseModel(m, lits[k].var), lits, k + 1)

\* a plausible slip in _undo: the clause states are not written back
restoreNone(cs, priors, k) == cs

\* _undo's restoring of the clause states, in the order of priors
RECURSIVE restoreFrom(_, _, _)
restoreFrom(cs, priors, k) ==
    IF k > Len(priors) THEN cs
    ELSE restoreFrom([cs EXCEPT ![priors[k][1]] = priors[k][2]], priors, k + 1)

\* one _undo of _backtrack: of a frame above the matching one, or of the
\* matching frame.  _deltas.top() of an empty stack is undefined (pc = "ub").
Undo ==
    /\ pc = "backtrack"
    /\ steps' = steps + 1
    /\ UNCHANGED <<instance, vars, pos_map, neg_map, arg, prev, assn_stack, verdict>>
    /\ IF deltas = <<>>
       THEN pc' = "ub" /\ UNCHANGED <<model, clause_states, deltas, pre>>
       ELSE LET delta == Top(deltas)
            IN  /\ deltas' = Pop(deltas)
                /\ pre' = Pop(pre)
                /\ model' = eraseAll(eraseModel(model, delta.principal.var),
                                     delta.forced, 1)
                /\ clause_states' = restoreFrom(clause_states, delta.priors, 1)
                /\ pc' = IF delta.principal = negate(Top(assn_stack))
                         THEN "loop" ELSE "backtrack"

\* the CNFs a caller passes to a second solve() of the same object: the same
\* CNF, the empty CNF, the CNF with an empty clause added
AgainArgs(a) == {a, <<>>, Append(a, <<>>)}

\* the caller calls solve() of the same solver once more
Again ==
    /\ pc = "done"
    /\ ~prev.called
    /\ prev' = [called |-> TRUE, arg |-> arg, verdict |-> verdict, model |-> model]
    /\ arg' \in AgainArgs(arg)
    /\ pc' = "idle"
    /\ verdict' = "none"
    /\ steps' = 0
    /\ UNCHANGED <<solver, pre>>

\* some step of the program is possible: it has not stopped
CanStep ==
    \/ pc \in {"idle", "loop", "backtrack"}
    \/ pc = "unit" /\ findUnit(clause_states) # <<>>
    \/ pc \in {"unit", "pure"} /\ findPure(vars, model, clause_states) # <<>>
    \/ AssignReturned

Next == Solve \/ Assign \/ ForceUnit \/ ForcePure \/ Check \/ Undo

\* one solve() on a freshly constructed DPLLSolver, as main does it
Spec == Init /\ [][Next]_allvars

NextReuse == Next \/ Again

\* two solve() calls on the same DPLLSolver
SpecReuse == Init /\ [][NextReuse]_allvars

\* ------------------------------------------------------------------ claims
\* some total assignment of the variables of f satisfies every clause of f
Satisfiable(f) == \E m \in [VarsOf(f) -> BOOLEAN] : CNFEval(f, m)

\* the first solve() of the solver has returned
FreshDone == pc = "done" /\ ~prev.called

\* C1: when solve on a fresh solver returns true, getModel() assigns every
\* variable of the CNF and every clause of the CNF evaluates to true under it.
C1_SatModelSatisfies ==
    (FreshDone /\ verdict = "sat") =>
        (VarsOf(arg) \subseteq DOMAIN model /\ CNFEval(arg, model))

\* C2: when solve on a fresh solver returns false, no total assignment of the
\* CNF's variables satisfies every clause.
C2_UnsatIsUnsat ==
    (FreshDone /\ verdict = "unsat") => ~Satisfiable(arg)

\* C2 witness: the search itself (not an early return) ended with UNSAT
C2_Witness ==
    FreshDone /\ verdict = "unsat" /\ instance # <<>> /\ Len(instance) > 2

\* the steps a solve of f can take: one for solve and _init, and for each of
\* the at most 2^(n+1) decisions of the tree over its n variables one _assign,
\* at most n forced literals, one turn of the loop and one _undo
RECURSIVE Pow2(_)
Pow2(n) == IF n = 0 THEN 1 ELSE 2 * Pow2(n - 1)

StepLimit(f) ==
    LET n == Cardinality(VarsOf(f)) IN 1 + Pow2(n + 1) * (n + 3)

\* C3: the search loop of a solve on a fresh solver returns a verdict (every
\* run takes a bounded number of steps and can step until it has returned),
\* and the verdict of a satisfiable CNF is true.
C3_TerminatesComplete ==
    /\ steps <= StepLimit(arg)
    /\ pc # "done" => CanStep
    /\ (FreshDone /\ Satisfiable(arg)) => verdict = "sat"

\* C3 witness: a search that backtracked returned true
C3_Witness ==
    /\ FreshDone /\ verdict = "sat" /\ instance # <<>>
    /\ Len(assn_stack) < Len(deltas)

\* C4: a second solve with the identical CNF returns the verdict and leaves
\* the model of the first.
C4_SameResult ==
    (pc = "done" /\ prev.called /\ arg = prev.arg) =>
        (verdict = prev.verdict /\ model = prev.model)

\* C5: during a solve on a fresh solver with no empty clause no assertion
\* fails: the decision popped from the stack and every forced literal are
\* unassigned when they are written into the model.
C5_NoAssertFails ==
    /\ pc # "abort"
    /\ (pc = "loop" /\ assn_stack # <<>>) =>
           ~isAssigned(model, Top(assn_stack).var)

\* C5 witness: a frame with two forced literals, and a decision taken after
\* a backtrack
C5_Witness ==
    /\ FreshDone /\ Len(assn_stack) < Len(deltas)
    /\ \E k \in 1 .. Len(deltas) : Len(deltas[k].forced) >= 2

\* C6: solve on the CNF with no clauses returns true and getModel() is then
\* the empty mapping, whatever was solved before.
C6_EmptyCnfEmptyModel ==
    (pc = "done" /\ arg = <<>>) => (verdict = "sat" /\ model = EmptyModel)

HasEmptyClause(f) == \E i \in 1 .. Len(f) : Len(f[i]) = 0

\* C7: solve on a non-empty CNF with a clause of no literals returns false
\* at once and leaves every member of the solver as it was.
C7_EmptyClauseUnsat ==
    [][(pc = "idle" /\ HasEmptyClause(arg)) =>
          (pc' = "done" /\ verdict' = "unsat" /\ UNCHANGED solver)]_allvars

\* C7 witness: such a solve has returned on a solver that searched before,
\* the empty clause not the first of three
C7_Witness ==
    /\ pc = "done" /\ verdict = "unsat" /\ prev.called
    /\ Len(arg) = 3 /\ Len(arg[1]) > 0 /\ HasEmptyClause(arg)
    /\ deltas # <<>> /\ model # EmptyModel

\* _init has run in the first solve
FreshInit == ~prev.called /\ instance # <<>>

NoRepeat(s) == \A a, b \in 1 .. Len(s) : s[a] = s[b] => a = b

\* C8: after _init, clause i is listed for v on the positive side iff the
\* literal (v, positive) occurs in it, on the negative side iff (v, negative)
\* occurs in it, and at most once per side.
C8_OccurrenceExact ==
    FreshInit =>
        \A v \in VarIds : \A i \in 1 .. Len(instance) :
            /\ Contains(pos_map[v], i) <=> Contains(instance[i], mkLit(v, FALSE))
            /\ Contains(neg_map[v], i) <=> Contains(instance[i], mkLit(v, TRUE))
            /\ NoRepeat(pos_map[v]) /\ NoRepeat(neg_map[v])

\* C9: the _undo that pops a frame leaves the model and the clause state
\* table as they were at the entry of the _assign that pushed the frame.
C9_UndoRestores ==
    [][(pc = "backtrack" /\ Len(deltas') < Len(deltas)) =>
          (/\ model' = Top(pre).model
           /\ clause_states' = Top(pre).cs)]_allvars

\* C9 witness: inside a backtrack the frame of the conflict has been undone,
\* and the next frame to undo, which ended in no conflict, forced literals
\* and stored more than one prior
C9_Witness ==
    /\ pc = "backtrack" /\ ~hasEmpty(clause_states) /\ deltas # <<>>
    /\ Top(deltas).forced # <<>> /\ Len(Top(deltas).priors) > 1

\* C10: after a propagator call has returned, every inactive clause has a
\* literal that is assigned and true under the model.
C10_InactiveSatisfied ==
    (~prev.called /\ pc \in {"unit", "pure", "check"}) =>
        \A k \in 1 .. Len(clause_states) :
            ~clause_states[k].active =>
                \E j \in 1 .. Len(instance[k]) :
                    /\ isAssigned(model, instance[k][j].var)
                    /\ LitEval(instance[k][j], model)

\* the search of the first solve() is under way: _init has run
Searching ==
    FreshInit /\ pc \in {"loop", "unit", "pure", "check", "backtrack"}

\* the literals of clause k that are unassigned under the model
Unassigned(k) ==
    {instance[k][j] : j \in {j \in 1 .. Len(instance[k]) :
                                 ~isAssigned(model, instance[k][j].var)}}

\* ptr is a literal position of clause k
InClause(ptr, k) == ptr.c = k /\ ptr.p \in 1 .. Len(instance[k])

\* C11: after _init, after a propagator call and after an _undo, each present
\* watcher of an active clause references a literal of that clause whose
\* variable is unassigned.
C11_WatchersUnassigned ==
    Searching =>
        \A k \in 1 .. Len(clause_states) :
            clause_states[k].active =>
                /\ clause_states[k].first # NULL =>
                       /\ InClause(clause_states[k].first, k)
                       /\ ~isAssigned(model, deref(clause_states[k].first).var)
                /\ clause_states[k].second # NULL =>
                       /\ InClause(clause_states[k].second, k)
                       /\ ~isAssigned(model, deref(clause_states[k].second).var)

\* C11 witness: after an _undo, with a variable still assigned, an active
\* clause of which a literal is assigned has a watcher on a later literal
C11_Witness ==
    /\ Searching /\ pc = "loop" /\ Top(assn_stack).sign /\ model # EmptyModel
    /\ \E k \in 1 .. Len(clause_states) :
          /\ clause_states[k].active
          /\ clause_states[k].first # NULL
          /\ isAssigned(model, instance[k][1].var)

\* C12: in those states an active clause has no watcher iff none of its
\* literals is unassigned, and exactly one watcher iff exactly one distinct
\* literal of it is unassigned.
C12_WatchersDetect ==
    Searching =>
        \A k \in 1 .. Len(clause_states) :
            clause_states[k].active =>
                /\ csEmpty(clause_states[k]) <=> Unassigned(k) = {}
                /\ csUnital(clause_states[k]) <=> Cardinality(Unassigned(k)) = 1

\* C12 witness: a propagator call has left one clause of several literals
\* empty and another one unit
C12_Witness ==
    /\ Searching /\ pc = "check"
    /\ \E k, n \in 1 .. Len(clause_states) :
          /\ clause_states[k].active /\ csEmpty(clause_states[k])
          /\ clause_states[n].active /\ csUnital(clause_states[n])
          /\ Len(instance[n]) > 2

\* C13: the two watchers of an active clause, when both present, reference
\* distinct literal positions of that clause.
C13_WatchersDistinct ==
    (instance # <<>> /\ pc \notin {"idle", "abort", "ub"}) =>
        \A k \in 1 .. Len(clause_states) :
            (/\ clause_states[k].active
             /\ clause_states[k].first # NULL
             /\ clause_states[k].second # NULL) =>
                /\ clause_states[k].first.c = clause_states[k].second.c
                /\ clause_states[k].first.p # clause_states[k].second.p

\* C13 witness: the first watcher of an active clause has moved past the
\* second one
C13_Witness ==
    /\ Searching /\ pc = "unit"
    /\ \E k \in 1 .. Len(clause_states) :
          /\ clause_states[k].active
          /\ clause_states[k].second # NULL
          /\ clause_states[k].first # NULL
          /\ clause_states[k].first.p > clause_states[k].second.p

\* C14: whenever a decision is popped from the pending-decision stack and
\* assigned (the first one, one after a backtrack, any other), no active
\* clause is unit in the state right before the assignment.
C14_NoUnitAtDecision ==
    (FreshInit /\ pc = "loop" /\ assn_stack # <<>>) =>
        \A k \in 1 .. Len(clause_states) :
            clause_states[k].active => ~csUnital(clause_states[k])

\* C15: every entry (i, prior) of the priors of every frame on the trail has
\* prior.active = true.
C15_PriorsActive ==
    ~prev.called =>
        \A d \in 1 .. Len(deltas) : \A k \in 1 .. Len(deltas[d].priors) :
            deltas[d].priors[k][2].active

\* the second loop of the propagator as the header documents it: it ends at
\* the first clause that the watcher update leaves active without watchers
RECURSIVE falsifyUntilEmpty(_, _, _, _, _)
falsifyUntilEmpty(idx, k, m, negated, r) ==
    IF k > Len(idx) THEN r
    ELSE LET i == idx[k]
             st == refresh(m, i, r.cs[i], negated)
             r1 == [cs |-> [r.cs EXCEPT ![i] = st],
                    priors |-> store(r.priors, <<i, r.cs[i]>>)]
         IN  IF st.active /\ csEmpty(st) THEN r1
             ELSE falsifyUntilEmpty(idx, k + 1, m, negated, r1)

\* the clause states and priors after a propagator call that stops so
stoppingPropagate(lit, m, cs, priors) ==
    LET pos_indices == IF lit.sign THEN neg_map[lit.var] ELSE pos_map[lit.var]
        neg_indices == IF lit.sign THEN pos_map[lit.var] ELSE neg_map[lit.var]
    IN  falsifyUntilEmpty(neg_indices, 1, m, negate(lit),
            satisfyFrom(pos_indices, 1, [cs |-> cs, priors |-> priors]))

\* C16: once the watcher update of a clause containing the negation of l
\* leaves it active without watchers, the propagator call for l stores no
\* state and changes no watcher of a later clause of that list: every call
\* (for a decision, for a forced unit) ends in the state of a call that
\* stops there.
C16_StopsAtConflict ==
    [][/\ (pc = "loop" /\ ~prev.called /\ assn_stack # <<>> /\ pc' # "abort") =>
              LET lit == Top(assn_stack)
                  r == stoppingPropagate(lit, setModel(model, lit.var, ~lit.sign),
                                         clause_states, <<>>)
              IN  clause_states' = r.cs /\ Top(deltas').priors = r.priors
       /\ (pc = "unit" /\ ~prev.called /\ pc' \in {"unit", "check"}) =>
              LET unit == findUnit(clause_states)[1]
                  r == stoppingPropagate(unit, setModel(model, unit.var, ~unit.sign),
                                         clause_states, Top(deltas).priors)
              IN  clause_states' = r.cs /\ Top(deltas').priors = r.priors
      ]_allvars

\* C17: a decision v=true (negative = false) is the one assigned first: the
\* loop is entered with it on top of the stack and v=false right below it
\* when v has just been chosen; v=false comes on top for assignment only by
\* the _undo of the frame whose decision was v=true, which leaves the trail,
\* the model and the clause states as they were beneath that frame.
C17_TrueThenFalse ==
    [][(pc' = "loop" /\ pc # "loop" /\ ~prev.called /\ assn_stack' # <<>>) =>
          IF Top(assn_stack').sign
          THEN /\ pc = "backtrack" /\ deltas # <<>>
               /\ Top(deltas).principal = negate(Top(assn_stack'))
               /\ deltas' = Pop(deltas)
               /\ model' = Top(pre).model
               /\ clause_states' = Top(pre).cs
          ELSE /\ pc # "backtrack"
               /\ Len(assn_stack') >= 2
               /\ assn_stack'[Len(assn_stack') - 1] = negate(Top(assn_stack'))
               /\ ~isAssigned(model', Top(assn_stack').var)
      ]_allvars

\* C17 witness: a decision v=false has been assigned above another frame
C17_Witness ==
    /\ ~prev.called /\ pc \in {"unit", "check"}
    /\ Len(deltas) >= 2 /\ Top(deltas).principal.sign
    /\ \E k \in 1 .. Len(clause_states) : clause_states[k].active

\* C18: while _backtrack runs on a non-empty pending stack, the trail holds a
\* frame whose decision is the negation of the top of the pending stack; the
\* undo loop never reads the top of an emptied trail.
C18_BacktrackFindsMatch ==
    ~prev.called =>
        /\ pc # "ub"
        /\ pc = "backtrack" =>
               /\ assn_stack # <<>>
               /\ \E k \in 1 .. Len(deltas) :
                      deltas[k].principal = negate(Top(assn_stack))

\* C18 witness: _backtrack has to undo a frame above the matching one
C18_Witness ==
    /\ ~prev.called /\ pc = "backtrack" /\ Len(deltas) >= 3
    /\ Top(deltas).principal # negate(Top(assn_stack))
    /\ \E k \in 1 .. Len(deltas) - 1 :
          deltas[k].principal = negate(Top(assn_stack))

\* C19: when _assign has returned, no literal of an active clause is true
\* under the model; and when every variable is assigned and no active clause
\* is empty, every clause is inactive (the branch of _DPLL that evaluates the
\* CNF is not reached).
C19_NoEvalBranch ==
    (FreshInit /\ AssignReturned) =>
        /\ \A k \in 1 .. Len(clause_states) :
               clause_states[k].active =>
                   \A j \in 1 .. Len(instance[k]) :
                       isAssigned(model, instance[k][j].var) =>
                           ~LitEval(instance[k][j], model)
        /\ (complete(vars, model) /\ ~hasEmpty(clause_states)) =>
               allInactive(clause_states)

\* C19 witness: _assign returns above another frame with every variable
\* assigned, the last one forced, and no empty clause
C19_Witness ==
    /\ FreshInit /\ AssignReturned
    /\ complete(vars, model) /\ ~hasEmpty(clause_states)
    /\ Len(deltas) >= 2 /\ Top(deltas).forced # <<>>

====
